---- MODULE Spec2Model ----
(***************************************************************************)
(* The Express blog API of permit-express-tutorial: the route table of     *)
(* app.js, the authentication middleware (JWT decode) and the              *)
(* authorization middleware that forwards (user, action, resource) to      *)
(* permit.check and enforces its verdict.                                  *)
(*                                                                         *)
(* Strings are sequences of symbols, so that split('/'), split(' ') and    *)
(* toLowerCase() are computed and not assumed.  The JavaScript values      *)
(* undefined and null are the one-symbol sequences Undefined and JsNull;   *)
(* no url, header or token holds these symbols.                            *)
(***************************************************************************)
EXTENDS Integers, Sequences, FiniteSets, TLC

VARIABLES req

vars == <<req>>

\* Number of requests the server receives in one behaviour.
NumReq == 2

Requests == 1..NumReq

Undefined == <<"undefined">>
JsNull == <<"null">>
EmptyString == << >>

-----------------------------------------------------------------------------
(* String helpers *)

\* String.prototype.toLowerCase, symbol by symbol.
LowerSym(c) ==
    CASE c = "GET" -> "get"
      [] c = "POST" -> "post"
      [] c = "PUT" -> "put"
      [] c = "DELETE" -> "delete"
      [] OTHER -> c

toLowerCase(s) == [i \in 1..Len(s) |-> LowerSym(s[i])]

\* String.prototype.split(sep): the pieces between the separators; a string
\* without separator gives one piece, a leading separator an empty first piece.
RECURSIVE SplitFrom(_, _, _, _)
SplitFrom(s, sep, i, cur) ==
    IF i > Len(s) THEN <<cur>>
    ELSE IF s[i] = sep THEN <<cur>> \o SplitFrom(s, sep, i + 1, << >>)
    ELSE SplitFrom(s, sep, i + 1, Append(cur, s[i]))

split(s, sep) == SplitFrom(s, sep, 1, << >>)

\* a[i] of a JavaScript array (0-based): undefined outside the array.
At(a, i) == IF i + 1 <= Len(a) THEN a[i + 1] ELSE Undefined

\* JavaScript truthiness of a string-or-undefined-or-null value.
Truthy(v) == v # Undefined /\ v # JsNull /\ v # EmptyString

-----------------------------------------------------------------------------
(* Values a request is made of *)

Str(c) == <<c>>

\* A JavaScript object is a set of <<name, value>> pairs; req.body is such an
\* object, or undefined when the request carried no JSON body.
EmptyObject == {}
UndefinedBody == [defined |-> FALSE, obj |-> EmptyObject]
ObjectBody(o) == [defined |-> TRUE, obj |-> o]

Methods == {Str("GET"), Str("POST"), Str("PUT"), Str("DELETE")}

Urls ==
    { <<"/", "post">>, <<"/", "post", "/", "1">>,
      <<"/", "author">>, <<"/", "author", "/", "1">>,
      <<"/", "comment">>, <<"/", "comment", "/", "1">>,
      <<"/", "post", "/">>, <<"/", "post", "?", "x">>,
      <<"/", "post", "/", "1", "?", "x">>, <<"/", "POST", "/", "1">> }

Bearer(tok) == <<"Bearer", " ", tok>>

\* The Authorization header: absent, empty, or "Bearer <token>".
AuthHeaders ==
    { Undefined, EmptyString,
      Bearer("jwt_admin"), Bearer("jwt_writer"), Bearer("jwt_approved_writer"),
      Bearer("jwt_commenter"), Bearer("jwt_forged") }

Bodies ==
    { UndefinedBody,
      ObjectBody({<<"published", TRUE>>}),
      ObjectBody({<<"published", FALSE>>}) }

\* Requests in flight beside the first one: an admin and a commenter creating
\* a post.
OtherTraffic ==
    { <<Str("POST"), <<"/", "post">>, Bearer("jwt_admin"), UndefinedBody>>,
      <<Str("POST"), <<"/", "post">>, Bearer("jwt_commenter"), UndefinedBody>> }

\* jwt.sign({ username }, ACCESS_TOKEN_SECRET): the tokens signed with the secret
\* and the username each carries.
SignedTokens == {"jwt_admin", "jwt_writer", "jwt_approved_writer", "jwt_commenter"}

Payload(tok) ==
    CASE tok = "jwt_admin" -> Str("admin@permit-blog.app")
      [] tok = "jwt_writer" -> Str("writer@permit-blog.app")
      [] tok = "jwt_approved_writer" -> Str("approved_writer@permit-blog.app")
      [] tok = "jwt_commenter" -> Str("commenter@permit-blog.app")
      [] OTHER -> Undefined

\* jwt.verify(token, ACCESS_TOKEN_SECRET, cb): err unless the token was signed
\* with the secret; otherwise the decoded payload.
VerifyOk(token) == Len(token) = 1 /\ token[1] \in SignedTokens

-----------------------------------------------------------------------------
(* The route table of app.js *)

PublicChain == <<"mockPublic">>
PrivateChain == <<"authentication", "authorization", "mockPrivate">>

Route(m, p, c) == [method |-> Str(m), path |-> p, chain |-> c]

\* The route table with the item GET route put behind the middlewares.
ResourceRoutesGuardedGet(r) ==
    << Route("GET", <<"/", r>>, PublicChain),
       Route("GET", <<"/", r, "/", ":id">>, PrivateChain),
       Route("POST", <<"/", r>>, PrivateChain),
       Route("PUT", <<"/", r, "/", ":id">>, PrivateChain),
       Route("DELETE", <<"/", r, "/", ":id">>, PrivateChain) >>

ResourceRoutes(r) ==
    << Route("GET", <<"/", r>>, PublicChain),
       Route("GET", <<"/", r, "/", ":id">>, PublicChain),
       Route("POST", <<"/", r>>, PrivateChain),
       Route("PUT", <<"/", r, "/", ":id">>, PrivateChain),
       Route("DELETE", <<"/", r, "/", ":id">>, PrivateChain) >>

Routes == ResourceRoutes("post") \o ResourceRoutes("author") \o ResourceRoutes("comment")

\* req.path: the url up to the query string.
RECURSIVE PathOf(_)
PathOf(url) ==
    IF url = << >> \/ Head(url) = "?" THEN << >>
    ELSE <<Head(url)>> \o PathOf(Tail(url))

\* The segments of a path, the empty piece before the leading '/' dropped and
\* one trailing '/' ignored (Express routes are not strict).
PathSegments(url) ==
    LET parts == Tail(split(PathOf(url), "/"))
    IN  IF Len(parts) > 1 /\ parts[Len(parts)] = EmptyString
        THEN SubSeq(parts, 1, Len(parts) - 1)
        ELSE parts

\* Express matches a route path segment by segment, letter case ignored; a
\* parameter (:id) matches any non-empty segment.
PathMatches(pattern, url) ==
    LET want == Tail(split(pattern, "/"))
        have == PathSegments(url)
    IN  /\ Len(want) = Len(have)
        /\ \A i \in 1..Len(want) :
              IF want[i] = Str(":id") THEN have[i] # EmptyString
              ELSE toLowerCase(have[i]) = toLowerCase(want[i])

RouteMatches(i, method, url) ==
    Routes[i].method = method /\ PathMatches(Routes[i].path, url)

\* The first declared route that matches, 0 when none does.
MatchRoute(method, url) ==
    IF \E i \in DOMAIN Routes : RouteMatches(i, method, url)
    THEN CHOOSE i \in DOMAIN Routes :
            /\ RouteMatches(i, method, url)
            /\ \A j \in 1..(i - 1) : ~RouteMatches(j, method, url)
    ELSE 0

-----------------------------------------------------------------------------
(* The policy configured in Permit.io, which permit.check evaluates *)

ResourceTypes == {Str("post"), Str("author"), Str("comment")}
Actions == {Str("get"), Str("post"), Str("put"), Str("delete"), Str("patch")}

\* The roles assigned on the Users screen.
RolesOf(username) ==
    CASE username = Str("admin@permit-blog.app") -> {"admin"}
      [] username = Str("writer@permit-blog.app") -> {"writer"}
      [] username = Str("approved_writer@permit-blog.app") -> {"writer"}
      [] username = Str("commenter@permit-blog.app") -> {"commenter"}
      [] OTHER -> {}

\* The user attribute `approved` of the user set "approved writers".
Approved(username) == username = Str("approved_writer@permit-blog.app")

\* The resource set "unpublished posts": published = false; an object without
\* the attribute is not in the set.
Unpublished(attributes) == <<"published", FALSE>> \in attributes

Permission(role, action, type, condition) ==
    [role |-> role, action |-> Str(action), type |-> Str(type), condition |-> condition]

\* The policy table: admins any action on any resource; writers edit and delete
\* posts and create unpublished posts; approved writers create any post;
\* writers retrieve comments; commenters retrieve and create comments.
Permissions ==
    { [role |-> "admin", action |-> a, type |-> t, condition |-> "none"] :
         a \in Actions, t \in ResourceTypes }
    \cup { Permission("writer", "put", "post", "none"),
           Permission("writer", "patch", "post", "none"),
           Permission("writer", "delete", "post", "none"),
           Permission("writer", "post", "post", "unpublished"),
           Permission("writer", "post", "post", "approved"),
           Permission("writer", "get", "comment", "none"),
           Permission("commenter", "get", "comment", "none"),
           Permission("commenter", "post", "comment", "none") }

ConditionHolds(condition, c) ==
    CASE condition = "none" -> TRUE
      [] condition = "unpublished" -> Unpublished(c.attributes)
      [] condition = "approved" -> Approved(c.user)
      [] OTHER -> FALSE

\* The permissions of the user's roles on (action, type), whatever their condition.
Applicable(username, action, type) ==
    { p \in Permissions :
         p.role \in RolesOf(username) /\ p.action = action /\ p.type = type }

\* The verdict of permit.check: allow when a permission of one of the user's
\* roles matches (action, type) and its condition holds.  A resource type or an
\* action the policy does not declare matches no permission.
Decide(c) ==
    \E p \in Applicable(c.user, c.action, c.type) : ConditionHolds(p.condition, c)

-----------------------------------------------------------------------------
(* A request on its way through the middleware chain of its route *)

NoCheck ==
    [user |-> Undefined, action |-> Undefined, type |-> Undefined,
     key |-> Undefined, attributes |-> EmptyObject]

IdleRequest ==
    [pc |-> "idle", method |-> Undefined, url |-> Undefined,
     authorization |-> Undefined, body |-> UndefinedBody,
     user |-> Undefined, props |-> {},
     route |-> 0, stage |-> 0,
     status |-> 0, sent |-> 0, sentBy |-> "none",
     checks |-> 0, check |-> NoCheck, allowed |-> "none",
     nextCalls |-> 0]

\* res.sendStatus(code) / res.json(...): one response leaves, the chain stops.
Respond(q, code, who) ==
    [q EXCEPT !.status = code, !.sent = @ + 1, !.sentBy = who, !.pc = "done"]

\* next(): control passes to the following handler of the route's chain.
CallNext(q) ==
    [q EXCEPT !.stage = @ + 1, !.pc = Routes[q.route].chain[q.stage + 1]]

\* const mockPublic = (req, res) => { res.json({ hello: 'public' }); };
mockPublic(q) == Respond(q, 200, "mockPublic")

\* const mockPrivate = (req, res) => { res.json({ hello: 'Authenticated' }); };
mockPrivate(q) == Respond(q, 200, "mockPrivate")

\* authHeader && authHeader.split(' ')[1]
TokenOf(authHeader) ==
    IF Truthy(authHeader) THEN At(split(authHeader, " "), 1) ELSE authHeader

\* authentication letting a request without token through as an anonymous one.
authenticationAnonymous(q) ==
    LET token == TokenOf(q.authorization) IN
    IF token = Undefined \/ token = JsNull THEN CallNext(q)
    ELSE IF ~VerifyOk(token) THEN Respond(q, 403, "authentication")
    ELSE CallNext([q EXCEPT !.user = Payload(token[1]), !.props = @ \cup {"user"}])

\* The authentication middleware.
authentication(q) ==
    LET token == TokenOf(q.authorization) IN
    IF token = Undefined \/ token = JsNull THEN Respond(q, 401, "authentication")
    ELSE IF ~VerifyOk(token) THEN Respond(q, 403, "authentication")
    ELSE CallNext([q EXCEPT !.user = Payload(token[1]), !.props = @ \cup {"user"}])

\* The arguments authorization builds for permit.check.
CheckArgs(q) ==
    LET action == toLowerCase(q.method)
        url_parts == split(q.url, "/")
        type == At(url_parts, 1)
        key == IF Truthy(At(url_parts, 2)) THEN At(url_parts, 2) ELSE JsNull
    IN  [user |-> q.user, action |-> action, type |-> type, key |-> key,
         attributes |-> IF q.body.defined THEN q.body.obj ELSE EmptyObject]

\* authorization storing the defaulted attributes back into req.body.
authorizationCallStoresBody(q) ==
    [q EXCEPT !.check = CheckArgs(q), !.checks = @ + 1, !.pc = "awaiting",
              !.body = ObjectBody(CheckArgs(q).attributes)]

\* authorization up to its await: permit.check is called, the handler suspends.
authorizationCall(q) ==
    [q EXCEPT !.check = CheckArgs(q), !.checks = @ + 1, !.pc = "awaiting"]

\* authorization without the `return` after res.sendStatus(403).
authorizationResumeNoReturn(q, allowed) ==
    LET seen == [q EXCEPT !.allowed = IF allowed THEN "true" ELSE "false"] IN
    IF ~allowed
    THEN CallNext([Respond(seen, 403, "authorization") EXCEPT !.nextCalls = @ + 1])
    ELSE CallNext([seen EXCEPT !.nextCalls = @ + 1])

\* authorization attaching the verdict to the request before next().
authorizationResumeAttaches(q, allowed) ==
    LET seen == [q EXCEPT !.allowed = IF allowed THEN "true" ELSE "false"] IN
    IF ~allowed THEN Respond(seen, 403, "authorization")
    ELSE CallNext([seen EXCEPT !.nextCalls = @ + 1, !.props = @ \cup {"decision"}])

\* authorization after the await, permit.check having resolved to `allowed`.
authorizationResume(q, allowed) ==
    LET seen == [q EXCEPT !.allowed = IF allowed THEN "true" ELSE "false"] IN
    IF ~allowed THEN Respond(seen, 403, "authorization")
    ELSE CallNext([seen EXCEPT !.nextCalls = @ + 1])

\* authorization calling permit.check again when it rejected.
authorizationThrowRetries(q, handled) ==
    [q EXCEPT !.checks = @ + 1]

\* authorization after the await, permit.check having rejected: the exception
\* leaves the async handler, which neither responds nor calls next.  Express
\* either drops the rejected promise (no response is ever sent) or hands the
\* error to its error handler (500).
authorizationThrow(q, handled) ==
    LET seen == [q EXCEPT !.allowed = "rejected"] IN
    IF handled THEN Respond(seen, 500, "express")
    ELSE [seen EXCEPT !.pc = "hung"]

-----------------------------------------------------------------------------
(* Actions *)

Init == req = [r \in Requests |-> IdleRequest]

\* A request arrives; bodyParser.json() has set req.body; the router picks the
\* first matching route and enters its chain.
Arrive(m, u, h, b) ==
    LET route == MatchRoute(m, u)
    IN  [IdleRequest EXCEPT
           !.method = m, !.url = u, !.authorization = h, !.body = b,
           !.route = route,
           !.stage = IF route = 0 THEN 0 ELSE 1,
           !.pc = IF route = 0 THEN "notFound" ELSE Routes[route].chain[1]]

\* Request 1 is any request; the requests in flight beside it are drawn from
\* OtherTraffic.
Receive(r) ==
    /\ req[r].pc = "idle"
    /\ \/ /\ r = 1
          /\ \E m \in Methods, u \in Urls, h \in AuthHeaders, b \in Bodies :
                req' = [req EXCEPT ![r] = Arrive(m, u, h, b)]
       \/ /\ r > 1
          /\ \E t \in OtherTraffic :
                req' = [req EXCEPT ![r] = Arrive(t[1], t[2], t[3], t[4])]

\* No declared route matches: Express answers 404.
NotFound(r) ==
    /\ req[r].pc = "notFound"
    /\ req' = [req EXCEPT ![r] = Respond(@, 404, "express")]

MockPublic(r) ==
    /\ req[r].pc = "mockPublic"
    /\ req' = [req EXCEPT ![r] = mockPublic(@)]

Authentication(r) ==
    /\ req[r].pc = "authentication"
    /\ req' = [req EXCEPT ![r] = authentication(@)]

Authorization(r) ==
    /\ req[r].pc = "authorization"
    /\ req' = [req EXCEPT ![r] = authorizationCall(@)]

\* permit.check answering from arguments kept in one place for all requests:
\* the verdict is that of the latest request still awaiting its check.
CheckResolvesSharedArgs(r) ==
    /\ req[r].pc = "awaiting"
    /\ LET waiting == {o \in Requests : req[o].pc = "awaiting"}
           last == CHOOSE o \in waiting : \A w \in waiting : w <= o
       IN  req' = [req EXCEPT ![r] = authorizationResume(@, Decide(req[last].check))]

\* permit.check resolves with the policy's verdict.
CheckResolves(r) ==
    /\ req[r].pc = "awaiting"
    /\ req' = [req EXCEPT ![r] = authorizationResume(@, Decide(@.check))]

\* permit.check rejects (the decision point cannot be reached, or fails).
CheckRejects(r) ==
    /\ req[r].pc = "awaiting"
    /\ \E handled \in BOOLEAN :
          req' = [req EXCEPT ![r] = authorizationThrow(@, handled)]

MockPrivate(r) ==
    /\ req[r].pc = "mockPrivate"
    /\ req' = [req EXCEPT ![r] = mockPrivate(@)]

Next ==
    \E r \in Requests :
        \/ Receive(r)
        \/ NotFound(r)
        \/ MockPublic(r)
        \/ Authentication(r)
        \/ Authorization(r)
        \/ CheckResolves(r)
        \/ CheckRejects(r)
        \/ MockPrivate(r)

Spec == Init /\ [][Next]_vars

-----------------------------------------------------------------------------
(* Properties *)

\* No more code runs for the request: a response was sent, or none ever will be.
Terminal(q) == q.pc \in {"done", "hung"}

\* The request matched a route guarded by authentication and authorization.
Protected(q) == q.route # 0 /\ Routes[q.route].chain = PrivateChain

\* C1: when permit.check returns a falsy verdict, authorization sends 403 and
\* never calls next: the private handler does not run for that request.
C1_DenyStops ==
    \A r \in Requests :
        req[r].allowed = "false" =>
            /\ req[r].pc = "done"
            /\ req[r].status = 403
            /\ req[r].sentBy = "authorization"
            /\ req[r].sent = 1
            /\ req[r].nextCalls = 0

C1_Witness ==
    \E r \in Requests :
        req[r].allowed = "false" /\ req[r].status = 403 /\ req[r].checks = 1

\* C2: when permit.check rejects, the request is answered 403 and the private
\* handler never runs.
C2_FailureDenies ==
    \A r \in Requests :
        req[r].allowed = "rejected" =>
            /\ req[r].pc = "done"
            /\ req[r].status = 403
            /\ req[r].nextCalls = 0

Seen(q) == <<q.method, q.url, q.authorization, q.body, q.user, q.props>>

\* C4: when permit.check returns a truthy verdict, authorization calls next
\* exactly once, sends no response itself and leaves the request (user, method,
\* url, body) as it found it; the private handler then answers 200.
C4_AllowPassesOn ==
    /\ [][\A r \in Requests :
            /\ req[r].pc \in {"authorization", "awaiting"} => Seen(req'[r]) = Seen(req[r])
            /\ (req[r].pc = "awaiting" /\ req'[r].allowed = "true") =>
                  /\ req'[r].pc = "mockPrivate"
                  /\ req'[r].nextCalls = 1
                  /\ req'[r].sent = 0]_vars
    /\ [](\A r \in Requests :
            req[r].allowed = "true" =>
                /\ req[r].nextCalls = 1
                /\ req[r].sentBy # "authorization"
                /\ req[r].pc = "done" =>
                      /\ req[r].status = 200
                      /\ req[r].sentBy = "mockPrivate"
                      /\ req[r].sent = 1)

C4_Witness ==
    \E r \in Requests :
        /\ req[r].allowed = "true"
        /\ req[r].status = 200
        /\ req[r].sentBy = "mockPrivate"
        /\ ~req[r].body.defined

\* C5, as claimed: when the private handler runs after an allow verdict, the
\* Decision is attached to the request.
C5_DecisionAttached ==
    \A r \in Requests :
        req[r].sentBy = "mockPrivate" => "decision" \in req[r].props

\* C5, amended: when the private handler runs after an allow verdict, the only
\* property the middlewares have added to the request is the user set by
\* authentication; no Decision is attached.
C5_OnlyUserAttached ==
    \A r \in Requests :
        (req[r].pc = "mockPrivate" \/ req[r].sentBy = "mockPrivate") =>
            /\ req[r].allowed = "true"
            /\ req[r].props = {"user"}

C5_Witness ==
    \E r \in Requests :
        req[r].sentBy = "mockPrivate" /\ req[r].allowed = "true" /\ req[r].status = 200

\* The HTTP method names in lower case.
ExpectedAction(method) ==
    CASE method = Str("GET") -> Str("get")
      [] method = Str("POST") -> Str("post")
      [] method = Str("PUT") -> Str("put")
      [] method = Str("DELETE") -> Str("delete")
      [] OTHER -> Undefined

\* The n-th segment (from 0) of the url's path, the query string not being part
\* of the path; undefined when the path has no such segment.
PathSegment(url, n) == At(Tail(split(PathOf(url), "/")), n)

ExpectedKey(url) ==
    IF PathSegment(url, 1) \in {Undefined, EmptyString} THEN JsNull
    ELSE PathSegment(url, 1)

\* C6: the triple forwarded to permit.check is the authenticated username, the
\* method in lower case, the first path segment as resource type, the second
\* path segment (null when absent or empty) as key, and the body (an empty
\* object when absent) as attributes.
C6_ForwardedTriple ==
    \A r \in Requests :
        req[r].checks > 0 =>
            /\ req[r].check.user = req[r].user
            /\ req[r].check.action = ExpectedAction(req[r].method)
            /\ req[r].check.type = PathSegment(req[r].url, 0)
            /\ req[r].check.key = ExpectedKey(req[r].url)
            /\ req[r].check.attributes =
                  (IF req[r].body.defined THEN req[r].body.obj ELSE EmptyObject)

\* C7: a GET request that matches a declared route is answered 200 by the
\* public handler whatever its Authorization header and whatever the policy;
\* neither authentication nor permit.check runs for it.
C7_PublicGet ==
    \A r \in Requests :
        (req[r].method = Str("GET") /\ req[r].route # 0) =>
            /\ req[r].pc \in {"mockPublic", "done"}
            /\ req[r].checks = 0
            /\ req[r].user = Undefined
            /\ req[r].props = {}
            /\ req[r].pc = "done" =>
                  /\ req[r].status = 200
                  /\ req[r].sentBy = "mockPublic"
                  /\ req[r].sent = 1

C7_Witness ==
    \E r \in Requests :
        /\ req[r].method = Str("GET")
        /\ req[r].url = <<"/", "post", "/", "1">>
        /\ req[r].authorization = Bearer("jwt_forged")
        /\ req[r].status = 200

\* The resource of the route the request matched.
RouteResource(q) == Str(Routes[q.route].path[2])

\* C8: an authenticated admin's request on a protected route, once permit.check
\* has returned its verdict, is allowed and the private handler answers 200.
C8_AdminAllowed ==
    \A r \in Requests :
        ( /\ Protected(req[r])
          /\ req[r].user = Str("admin@permit-blog.app")
          /\ req[r].allowed \in {"true", "false"} ) =>
            /\ req[r].allowed = "true"
            /\ req[r].pc = "done" =>
                  req[r].status = 200 /\ req[r].sentBy = "mockPrivate"

\* C9: an authenticated user whose roles hold no permission on the action and
\* the resource type of the route is answered 403 on every protected route, and
\* the private handler runs only after a positive verdict.
C9_DefaultDeny ==
    \A r \in Requests :
        /\ ( /\ Protected(req[r])
             /\ req[r].user # Undefined
             /\ Applicable(req[r].user, ExpectedAction(req[r].method),
                           RouteResource(req[r])) = {}
             /\ Terminal(req[r]) ) =>
               req[r].pc = "done" /\ req[r].status = 403
        /\ req[r].sentBy = "mockPrivate" => req[r].allowed = "true"

\* The writer's POST /post with the given body.
WriterCreates(q, body) ==
    /\ q.method = Str("POST")
    /\ q.url = <<"/", "post">>
    /\ q.user = Str("writer@permit-blog.app")
    /\ q.body = body

\* C10: a writer's POST /post with body {published: true} is answered 403, and
\* with body {published: false}, once permit.check has returned its verdict, is
\* answered 200; the attributes forwarded are the body's.
C10_PublishedDecides ==
    \A r \in Requests :
        /\ ( /\ WriterCreates(req[r], ObjectBody({<<"published", TRUE>>}))
             /\ Terminal(req[r]) ) =>
               req[r].pc = "done" /\ req[r].status = 403
        /\ ( /\ WriterCreates(req[r], ObjectBody({<<"published", FALSE>>}))
             /\ Terminal(req[r])
             /\ req[r].allowed # "rejected" ) =>
               req[r].pc = "done" /\ req[r].status = 200
        /\ ( /\ \E b \in Bodies : WriterCreates(req[r], b)
             /\ req[r].checks > 0 ) =>
               req[r].check.attributes = req[r].body.obj

\* C11: requests in flight together do not interfere: a request's outcome is
\* the verdict of the policy on its own (user, action, resource) -- 403 when it
\* denies, the private handler when it allows --, a step of one request leaves
\* every other request as it was, and a request awaiting its check can resume
\* whatever the state of the others.
C11_NoInterference ==
    /\ [](\A r \in Requests :
            /\ req[r].allowed \in {"true", "false"} =>
                  /\ (req[r].allowed = "true") <=> Decide(CheckArgs(req[r]))
                  /\ req[r].allowed = "false" => req[r].status = 403
                  /\ req[r].allowed = "true" => req[r].pc \in {"mockPrivate", "done"}
                  /\ (req[r].allowed = "true" /\ req[r].pc = "done") =>
                        req[r].sentBy = "mockPrivate"
            /\ req[r].pc = "awaiting" => ENABLED CheckResolves(r))
    /\ [][\A r, o \in Requests :
            (r # o /\ req'[r] # req[r]) => req'[o] = req[o]]_vars

\* One request was denied while another, which the policy allows, is still
\* awaiting its own check.
C11_Witness ==
    \E r, o \in Requests :
        /\ r # o
        /\ req[r].pc = "awaiting"
        /\ Decide(req[r].check)
        /\ req[o].allowed = "false"
        /\ req[o].status = 403

\* C12: permit.check is invoked exactly once for a request that reaches
\* authorization, whether it allows, denies or fails, and never for a request
\* stopped by authentication, served by a public route or matching no route.
C12_CheckOnce ==
    \A r \in Requests :
        /\ req[r].checks =
              (IF req[r].pc = "awaiting" \/ req[r].allowed # "none" THEN 1 ELSE 0)
        /\ req[r].pc = "mockPrivate" => req[r].checks = 1
        /\ req[r].sentBy \in {"authorization", "mockPrivate"} => req[r].checks = 1
        /\ req[r].sentBy \in {"authentication", "mockPublic"} => req[r].checks = 0
        /\ ~Protected(req[r]) => req[r].checks = 0

\* A failed check and a check that returned a verdict, each invoked once.
C12_Witness ==
    \E r, o \in Requests :
        /\ req[r].allowed = "rejected"
        /\ req[r].checks = 1
        /\ req[o].allowed \in {"true", "false"}
        /\ req[o].checks = 1
        /\ Terminal(req[o])

\* The id of the route the request matched: the segment under :id, null for a
\* route without id.
RouteKey(q) ==
    IF Len(Routes[q.route].path) = 4 THEN PathSegments(q.url)[2] ELSE JsNull

\* C13: for every url that matches a protected route -- with a query string, a
\* trailing slash or other letter case too -- the resource type forwarded to
\* permit.check is the resource of the matched route and the key is the
\* route's id.
C13_RouteResourceForwarded ==
    \A r \in Requests :
        req[r].checks > 0 =>
            /\ req[r].check.type = RouteResource(req[r])
            /\ req[r].check.key = RouteKey(req[r])

\* C14: a request to a declared route ends in exactly one outcome: one
\* response, 200, 401 or 403, never two, never a middleware's response
\* together with a call of the next stage, whether the check allows, denies
\* or fails.
C14_OneOutcome ==
    \A r \in Requests :
        req[r].route # 0 =>
            /\ req[r].sent <= 1
            /\ req[r].sent = 1 => req[r].pc = "done"
            /\ (req[r].sentBy = "authorization") => req[r].nextCalls = 0
            /\ (req[r].sentBy = "authentication") => req[r].stage = 1
            /\ Terminal(req[r]) =>
                  /\ req[r].pc = "done"
                  /\ req[r].sent = 1
                  /\ req[r].status \in {200, 401, 403}

====
